---- MODULE Spec2Model ----
(***************************************************************************)
(* CaseCompass-AI: the ingestion orchestrator (handleBootstrapping with    *)
(* batchUpserts and isValidContent), the ingest route that calls it, and   *)
(* the search route with its deduplication by title.                       *)
(*                                                                         *)
(* A text is modelled by two lengths, the raw one and the trimmed one      *)
(* (what .trim().length gives).  The external services (embeddings         *)
(* provider, vector store, PDF loader, splitter) are modelled by their     *)
(* outcome: a value or a thrown error, whose code is either the            *)
(* connect-timeout code or anything else.                                  *)
(***************************************************************************)
EXTENDS Integers, Sequences, FiniteSets, TLC

\* ---- bounds of the model ----
MaxDocs == 2          \* documents in the docs/ directory
MaxStarts == 2        \* ingestion requests served one after the other
MaxRetrieved == 4     \* items returned by the similarity search
MaxVectors == 5       \* vectors handed to batchUpserts (SpecUpsert)
MaxSubBatch == 3      \* batchSize handed to batchUpserts (SpecUpsert)

\* ---- program constants ----
BATCH_SIZE == 5
SUB_BATCH_SIZE == 2
LENGTH_BOUND == 8192
CHUNK_SIZE == 1000
CHUNK_OVERLAP == 200
DELAY_OK == 1000
DELAY_FAILED == 2000

RunIds == {1}
ConcurrentRuns == {1, 2}               \* two requests served at the same time
ErrorCodes == {"timeout", "other"}     \* UND_ERR_CONNECT_TIMEOUT / any other
Titles == {"Smith v. Jones", "Roe v. Wade", "Doe v. Bolton"}

\* page contents a loaded document can have: empty string, whitespace only,
\* an ordinary text, a text whose trimmed length reaches the bound
Contents ==
  { [raw |-> 0, trimmed |-> 0],
    [raw |-> 3, trimmed |-> 0],
    [raw |-> 2602, trimmed |-> 2600],
    [raw |-> 8192, trimmed |-> 8192] }

VARIABLES
  env,          \* process.env: which of the three settings are defined
  docs,         \* what loader.load() finds in docs/
  indexExists,  \* the target index exists in the vector store
  indexVecs,    \* vector records held by the target index
  starts,       \* ingestion requests started so far
  run,          \* per ingestion request: the locals of the ingest route and
                \* of handleBootstrapping, and what the request has done
  search        \* the search request: its locals and what it has done

vars == << env, docs, indexExists, indexVecs, starts, run, search >>

\* ---- pure helpers ----

Min(a, b) == IF a < b THEN a ELSE b

\* arr.slice(from, to) with 0-based from and exclusive to
Slice(s, from, to) == SubSeq(s, from + 1, Min(to, Len(s)))

\* isValidContent with the bound included
isValidContentInclusive(pageContent) ==
  IF pageContent.raw = 0
  THEN FALSE
  ELSE pageContent.trimmed > 0 /\ pageContent.trimmed <= LENGTH_BOUND

\* isValidContent (lines 212-218)
isValidContent(pageContent) ==
  IF pageContent.raw = 0
  THEN FALSE
  ELSE pageContent.trimmed > 0 /\ pageContent.trimmed < LENGTH_BOUND

\* number of chunks the splitter makes of a text of trimmed length n:
\* windows of CHUNK_SIZE that advance by CHUNK_SIZE - CHUNK_OVERLAP
ChunkCount(n) ==
  IF n <= CHUNK_SIZE THEN 1
  ELSE 1 + ((n - CHUNK_SIZE) + (CHUNK_SIZE - CHUNK_OVERLAP) - 1)
             \div (CHUNK_SIZE - CHUNK_OVERLAP)

ChunkLen(n, p) == Min(CHUNK_SIZE, n - (p - 1) * (CHUNK_SIZE - CHUNK_OVERLAP))

\* chunks of one document: each carries the name of its parent
ChunksOf(doc) ==
  [p \in 1..ChunkCount(doc.pageContent.trimmed) |->
     [doc |-> doc.name, part |-> p,
      pageContent |-> [raw |-> ChunkLen(doc.pageContent.trimmed, p),
                       trimmed |-> ChunkLen(doc.pageContent.trimmed, p)]]]

RECURSIVE splitDocuments(_)
splitDocuments(ds) ==
  IF ds = << >> THEN << >>
  ELSE ChunksOf(Head(ds)) \o splitDocuments(Tail(ds))

\* the embedding the provider computes for a chunk; << >> is undefined
Embedding(chunk) == << chunk.doc, chunk.part >>
Undefined == << >>

\* the vectors of a batch with ids that depend on the position only
MakeVectorsByPosition(no, first, batch, m) ==
  [k \in 1..Len(batch) |->
     [id |-> << 0, first + k >>,
      values |-> IF k <= m THEN Embedding(batch[k]) ELSE Undefined,
      chunk |-> [doc |-> batch[k].doc, part |-> batch[k].part]]]

\* vectors of one batch (lines 302-309 and 335-339): record k of the batch
\* gets a fresh id and embeddings[k], which is undefined beyond the m
\* embeddings the provider returned
MakeVectors(no, first, batch, m) ==
  [k \in 1..Len(batch) |->
     [id |-> << no, first + k >>,
      values |-> IF k <= m THEN Embedding(batch[k]) ELSE Undefined,
      chunk |-> [doc |-> batch[k].doc, part |-> batch[k].part]]]

\* index.upsert(group): insert or replace by id
Upsert(stored, group) ==
  { v \in stored : \A k \in 1..Len(group) : group[k].id # v.id }
    \cup { group[k] : k \in 1..Len(group) }

\* the slice with its end one too low
UpsertGroupShort(vs, from, batchSize) == Slice(vs, from, from + batchSize - 1)

\* the slice of the vectors that one index.upsert call gets (line 171)
UpsertGroup(vs, from, batchSize) == Slice(vs, from, from + batchSize)

\* the outer catch without the test of the error code
OuterCatchStatusGeneric(code) == 500

\* status the outer catch answers with (lines 373-383)
OuterCatchStatus(code) == IF code = "timeout" THEN 504 ELSE 500

\* number of the batch that starts at index idx (line 289)
BatchNo(idx) == idx \div BATCH_SIZE + 1

\* how many embeddings the provider may return for n texts: none, fewer
\* than asked for, or one per text
EmbedCounts(n) == {0, 1, n}

SeedVector == [id |-> << 0, 0 >>, values |-> << 0, 0 >>,
               chunk |-> [doc |-> 0, part |-> 0]]

\* ---- initial states ----

DocLists ==
  UNION { { [k \in 1..n |-> [name |-> k, pageContent |-> f[k]]] :
              f \in [1..n -> Contents] } : n \in 0..MaxDocs }

\* locals of one ingestion request before it starts
\*   pc         the await the request is suspended at
\*   runNo      number of the request (makes the uuidv4 ids fresh)
\*   hasVectors local hasVectors, "unknown" before the check
\*   loaded     loader.load() calls made
\*   handed     validDocuments, handed to the splitter
\*   splits     chunks returned by the splitter
\*   i          batch loop index (line 286)
\*   vectors, subSize, j   arguments and loop index of batchUpserts
\*   embedLog   embedDocuments calls made (number of the batch)
\*   upsertLog  groups passed to index.upsert
\*   upsertOutcome  per group passed to index.upsert: its batch, and how
\*              the call ended ("ok", "failed"), once it has ended
\*   inflight   requests sent to the provider or the store whose promise
\*              has not settled yet
\*   batchLog   how each visited batch ended, and the pause that followed
\*   storeCalls calls made to the vector store
\*   failures   the steps that failed, each with its error code
\*   hbStatus   status of handleBootstrapping's response, 0 = none
\*   response   status of the ingest route's response, 0 = none
\*   signal     what the caller of the bootstrap route gets, "none" before
RunIdle ==
  [pc |-> "idle", runNo |-> 0, hasVectors |-> "unknown", loaded |-> 0,
   handed |-> << >>, splits |-> << >>, i |-> 0, vectors |-> << >>,
   subSize |-> SUB_BATCH_SIZE, j |-> 0, embedLog |-> << >>,
   upsertLog |-> << >>, upsertOutcome |-> << >>, batchLog |-> << >>,
   inflight |-> {}, storeCalls |-> 0,
   failures |-> << >>, hbStatus |-> 0, response |-> 0, signal |-> "none"]

\* the query field of a request body: absent, empty, or a text
NoQuery == [present |-> FALSE, text |-> ""]
Queries == { NoQuery,
             [present |-> TRUE, text |-> ""],
             [present |-> TRUE, text |-> "breach of contract"] }

\* lists the similarity search can return: item k is the k-th best match
RetrievedLists ==
  UNION { { [k \in 1..n |-> [id |-> k, metadata |-> [title |-> f[k]]]] :
              f \in [1..n -> Titles] } : n \in 0..MaxRetrieved }

\* the search request before it arrives
SearchIdle ==
  [pc |-> "idle", query |-> NoQuery, retrieved |-> << >>, results |-> << >>,
   status |-> 0, body |-> "none", embedCalls |-> 0, storeCalls |-> 0,
   failures |-> << >>]

Init ==
  /\ env \in [voyage : BOOLEAN, pinecone : BOOLEAN, index : BOOLEAN]
  /\ docs \in DocLists
  /\ indexExists \in BOOLEAN
  /\ indexVecs \in IF indexExists THEN { {}, {SeedVector} } ELSE { {} }
  /\ starts = 0
  /\ run = [r \in RunIds |-> RunIdle]
  /\ search = SearchIdle

\* ---- handleBootstrapping and the ingest route ----

\* an error thrown outside the batch's try block reaches the outer catch
\* (lines 366-384), which answers with the status of the error's code
OuterCatch(rec, step, code) ==
  [rec EXCEPT !.failures = Append(@, [step |-> step, code |-> code]),
              !.hbStatus = OuterCatchStatus(code),
              !.pc = "returned"]

\* the batch's try block without its catch: the error goes to the outer one
BatchCatchRethrows(rec, step, code) == OuterCatch(rec, step, code)

\* an error thrown inside the batch's try block is caught there (lines
\* 353-361): it is logged, the run pauses and goes on with the next batch
BatchCatch(rec, step, code) ==
  [rec EXCEPT !.failures = Append(@, [step |-> step, code |-> code]),
              !.batchLog = Append(@, [batch |-> BatchNo(rec.i),
                                      outcome |-> "failed",
                                      pause |-> DELAY_FAILED]),
              !.pc = "delay"]

\* the has-vectors check without the early return
HasVectorsBranchIgnored(rec, hv) ==
  [rec EXCEPT !.hasVectors = IF hv THEN "yes" ELSE "no", !.pc = "load"]

\* lines 228-233: return success at once when the index has vectors
HasVectorsBranch(rec, hv) ==
  IF hv
  THEN [rec EXCEPT !.hasVectors = "yes", !.hbStatus = 200, !.pc = "returned"]
  ELSE [rec EXCEPT !.hasVectors = "no", !.pc = "load"]

\* lines 244-256: no documents is answered with 400, otherwise the valid
\* documents are kept for the splitter
AfterLoad(rec, documents) ==
  IF Len(documents) = 0
  THEN [rec EXCEPT !.hbStatus = 400, !.pc = "returned"]
  ELSE [rec EXCEPT
          !.handed = SelectSeq(documents,
                               LAMBDA d : isValidContent(d.pageContent)),
          !.pc = "split"]

\* lines 287-296: the valid chunks of the batch that starts at rec.i
ValidBatch(rec) ==
  SelectSeq(Slice(rec.splits, rec.i, rec.i + BATCH_SIZE),
            LAMBDA c : isValidContent(c.pageContent))

\* a request of the batch that starts at rec.i: the embedding request (line
\* 324), or the upsert of the group that starts at rec.j (line 177)
Request(kind, rec) ==
  [kind |-> kind, batch |-> BatchNo(rec.i),
   group |-> IF kind = "upsert" THEN rec.j ELSE 0]

\* await: the promise of the request the run is suspended at has settled
Settled(rec, kind) ==
  [rec EXCEPT !.inflight = @ \ {Request(kind, rec)}]

\* lines 286-326: one test of the batch loop, up to the embedding request.
\* The embeddings client is constructed outside the try block; it refuses
\* to be constructed without an API key.
BatchLoopStep(rec, voyageKey) ==
  IF ~(rec.i < Len(rec.splits))
  THEN [rec EXCEPT !.hbStatus = 200, !.pc = "returned"]
  ELSE IF Len(ValidBatch(rec)) = 0
  THEN [rec EXCEPT !.batchLog = Append(@, [batch |-> BatchNo(rec.i),
                                           outcome |-> "skipped",
                                           pause |-> 0]),
                   !.i = @ + BATCH_SIZE]
  ELSE IF ~voyageKey
  THEN OuterCatch(rec, "client", "other")
  ELSE [rec EXCEPT !.embedLog = Append(@, BatchNo(rec.i)),
                   !.inflight = @ \cup {Request("embed", rec)},
                   !.pc = "embed"]

\* lines 328-349: after the provider returned m embeddings
AfterEmbed(rec, m, pineconeKey) ==
  IF m = 0
  THEN [rec EXCEPT !.batchLog = Append(@, [batch |-> BatchNo(rec.i),
                                           outcome |-> "noEmbeddings",
                                           pause |-> 0]),
                   !.i = @ + BATCH_SIZE,
                   !.pc = "batchLoop"]
  ELSE IF ~pineconeKey
  THEN BatchCatch(rec, "apiKey", "other")
  ELSE [rec EXCEPT
          !.vectors = MakeVectors(rec.runNo, rec.i, ValidBatch(rec), m),
          !.subSize = SUB_BATCH_SIZE,
          !.j = 0,
          !.pc = "batchUpserts"]

\* the loop of batchUpserts without the await: the next group is sent at
\* once
BatchUpsertsStepNoAwait(rec) ==
  IF rec.j < Len(rec.vectors)
  THEN [rec EXCEPT
          !.upsertLog = Append(@, UpsertGroup(rec.vectors, rec.j, rec.subSize)),
          !.inflight = @ \cup {Request("upsert", rec)},
          !.storeCalls = @ + 1,
          !.j = @ + rec.subSize]
  ELSE [rec EXCEPT !.batchLog = Append(@, [batch |-> BatchNo(rec.i),
                                           outcome |-> "ok",
                                           pause |-> DELAY_OK]),
                   !.pc = "delay"]

\* lines 170-178: one test of the loop of batchUpserts; line 352 after it
BatchUpsertsStep(rec) ==
  IF rec.j < Len(rec.vectors)
  THEN [rec EXCEPT
          !.upsertLog = Append(@, UpsertGroup(rec.vectors, rec.j, rec.subSize)),
          !.inflight = @ \cup {Request("upsert", rec)},
          !.storeCalls = @ + 1,
          !.pc = "upsert"]
  ELSE [rec EXCEPT !.batchLog = Append(@, [batch |-> BatchNo(rec.i),
                                           outcome |-> "ok",
                                           pause |-> DELAY_OK]),
                   !.pc = "delay"]

\* line 177 after the await: the loop of batchUpserts goes on (line 170)
UpsertDone(rec) ==
  [rec EXCEPT !.upsertOutcome = Append(@, [batch |-> BatchNo(rec.i),
                                           outcome |-> "ok"]),
              !.j = @ + rec.subSize,
              !.pc = "batchUpserts"]

\* index.upsert throws and batchUpserts goes on with the next group
UpsertFailedGoesOn(rec, code) ==
  [rec EXCEPT !.upsertOutcome = Append(@, [batch |-> BatchNo(rec.i),
                                           outcome |-> "failed"]),
              !.failures = Append(@, [step |-> "upsert", code |-> code]),
              !.j = @ + rec.subSize,
              !.pc = "batchUpserts"]

\* index.upsert throws: batchUpserts has no catch, so the error leaves it
\* and lands in the catch of the batch (line 353)
UpsertFailed(rec, code) ==
  BatchCatch([rec EXCEPT !.upsertOutcome = Append(@, [batch |-> BatchNo(rec.i),
                                                      outcome |-> "failed"])],
             "upsert", code)

\* POST /ingest arrives (lines 131-134) and handleBootstrapping starts
Start(r) ==
  /\ run[r].pc \in {"idle", "done"}
  /\ starts < MaxStarts
  /\ starts' = starts + 1
  /\ run' = [run EXCEPT ![r] = [RunIdle EXCEPT !.pc = "createIndex",
                                               !.runNo = starts + 1]]
  /\ UNCHANGED << env, docs, indexExists, indexVecs, search >>

\* line 226, await createIndexIfNecessary(targetIndex): without the
\* vector-store key or the index name it throws before any request
CreateIndexIfNecessary(r) ==
  /\ run[r].pc = "createIndex"
  /\ IF ~(env.pinecone /\ env.index)
     THEN /\ run' = [run EXCEPT ![r] = OuterCatch(@, "config", "other")]
          /\ UNCHANGED indexExists
     ELSE \/ /\ indexExists' = TRUE
             /\ run' = [run EXCEPT ![r].storeCalls = @ + 1,
                                   ![r].pc = "hasVectors"]
          \/ \E code \in ErrorCodes :
               /\ run' = [run EXCEPT ![r] =
                            OuterCatch([@ EXCEPT !.storeCalls = @ + 1],
                                       "createIndex", code)]
               /\ UNCHANGED indexExists
  /\ UNCHANGED << env, docs, indexVecs, starts, search >>

\* lines 227-233, await pineconeIndexHasVectors(targetIndex)
PineconeIndexHasVectors(r) ==
  /\ run[r].pc = "hasVectors"
  /\ \/ run' = [run EXCEPT ![r] =
                  HasVectorsBranch([@ EXCEPT !.storeCalls = @ + 1],
                                   indexVecs # {})]
     \/ \E code \in ErrorCodes :
          run' = [run EXCEPT ![r] =
                    OuterCatch([@ EXCEPT !.storeCalls = @ + 1],
                               "hasVectors", code)]
  /\ UNCHANGED << env, docs, indexExists, indexVecs, starts, search >>

\* lines 237-256, await loader.load()
LoadDocuments(r) ==
  /\ run[r].pc = "load"
  /\ \/ run' = [run EXCEPT ![r] = AfterLoad([@ EXCEPT !.loaded = @ + 1], docs)]
     \/ \E code \in ErrorCodes :
          run' = [run EXCEPT ![r] =
                    OuterCatch([@ EXCEPT !.loaded = @ + 1], "load", code)]
  /\ UNCHANGED << env, docs, indexExists, indexVecs, starts, search >>

\* lines 275-279, await splitter.splitDocuments(validDocuments)
SplitDocuments(r) ==
  /\ run[r].pc = "split"
  /\ \/ run' = [run EXCEPT ![r].splits = splitDocuments(run[r].handed),
                           ![r].i = 0,
                           ![r].pc = "batchLoop"]
     \/ \E code \in ErrorCodes :
          run' = [run EXCEPT ![r] = OuterCatch(@, "split", code)]
  /\ UNCHANGED << env, docs, indexExists, indexVecs, starts, search >>

\* lines 286-326
BatchLoop(r) ==
  /\ run[r].pc = "batchLoop"
  /\ run' = [run EXCEPT ![r] = BatchLoopStep(@, env.voyage)]
  /\ UNCHANGED << env, docs, indexExists, indexVecs, starts, search >>

\* lines 324-349, await voyageEmbeddings.embedDocuments(...) ends
EmbedReturn(r) ==
  /\ run[r].pc = "embed"
  /\ \/ \E m \in EmbedCounts(Len(ValidBatch(run[r]))) :
          run' = [run EXCEPT ![r] =
                    AfterEmbed(Settled(@, "embed"), m, env.pinecone)]
     \/ \E code \in ErrorCodes :
          run' = [run EXCEPT ![r] =
                    BatchCatch(Settled(@, "embed"), "embed", code)]
  /\ UNCHANGED << env, docs, indexExists, indexVecs, starts, search >>

\* lines 170-177 and 352
BatchUpserts(r) ==
  /\ run[r].pc = "batchUpserts"
  /\ run' = [run EXCEPT ![r] = BatchUpsertsStep(@)]
  /\ UNCHANGED << env, docs, indexExists, indexVecs, starts, search >>

\* line 177, await index.upsert(batch) ends
UpsertReturn(r) ==
  /\ run[r].pc = "upsert"
  /\ \/ /\ indexVecs' =
             Upsert(indexVecs, run[r].upsertLog[Len(run[r].upsertLog)])
        /\ run' = [run EXCEPT ![r] = UpsertDone(Settled(@, "upsert"))]
     \/ \E code \in ErrorCodes :
          /\ run' = [run EXCEPT ![r] = UpsertFailed(Settled(@, "upsert"), code)]
          /\ UNCHANGED indexVecs
  /\ UNCHANGED << env, docs, indexExists, starts, search >>

\* lines 352 and 359: the pause is over, the loop goes on (line 286)
DelayDone(r) ==
  /\ run[r].pc = "delay"
  /\ run' = [run EXCEPT ![r].i = @ + BATCH_SIZE, ![r].pc = "batchLoop"]
  /\ UNCHANGED << env, docs, indexExists, indexVecs, starts, search >>

\* lines 134-136: the ingest route answers once handleBootstrapping returned
IngestRouteReturn(r) ==
  /\ run[r].pc = "returned"
  /\ run' = [run EXCEPT ![r].response = 200, ![r].pc = "done"]
  /\ UNCHANGED << env, docs, indexExists, indexVecs, starts, search >>

\* response.ok of fetch (line 207): a status of 200 to 299
ResponseOk(status) == status >= 200 /\ status <= 299

\* initiateBootstrapping (lines 200-209) throws when the ingest route's
\* response is not ok; the bootstrap route (route.ts lines 4-9) answers
\* success when it returns and fails when it throws
InitiateBootstrapping(status) ==
  IF ~ResponseOk(status) THEN "failure" ELSE "success"

\* route.ts lines 6-8: the fetch of initiateBootstrapping has its response
BootstrapRouteReturn(r) ==
  /\ run[r].pc = "done"
  /\ run[r].signal = "none"
  /\ run' = [run EXCEPT ![r].signal = InitiateBootstrapping(run[r].response)]
  /\ UNCHANGED << env, docs, indexExists, indexVecs, starts, search >>

Next ==
  \E r \in RunIds :
    \/ Start(r)
    \/ CreateIndexIfNecessary(r)
    \/ PineconeIndexHasVectors(r)
    \/ LoadDocuments(r)
    \/ SplitDocuments(r)
    \/ BatchLoop(r)
    \/ EmbedReturn(r)
    \/ BatchUpserts(r)
    \/ UpsertReturn(r)
    \/ DelayDone(r)
    \/ IngestRouteReturn(r)
    \/ BootstrapRouteReturn(r)

Spec == Init /\ [][Next]_vars

\* ---- two ingestion requests at the same time ----

\* docs/ holds one document of two chunks, the configuration is complete and
\* the index is empty; nothing in the routes or in handleBootstrapping keeps a
\* second request from starting while the first one runs
InitRace ==
  /\ env = [voyage |-> TRUE, pinecone |-> TRUE, index |-> TRUE]
  /\ docs = << [name |-> 1, pageContent |-> [raw |-> 1502, trimmed |-> 1500]] >>
  /\ indexExists = TRUE
  /\ indexVecs = {}
  /\ starts = 0
  /\ run = [r \in ConcurrentRuns |-> RunIdle]
  /\ search = SearchIdle

NextRace ==
  \E r \in ConcurrentRuns :
    \/ Start(r)
    \/ CreateIndexIfNecessary(r)
    \/ PineconeIndexHasVectors(r)
    \/ LoadDocuments(r)
    \/ SplitDocuments(r)
    \/ BatchLoop(r)
    \/ EmbedReturn(r)
    \/ BatchUpserts(r)
    \/ UpsertReturn(r)
    \/ DelayDone(r)
    \/ IngestRouteReturn(r)
    \/ BootstrapRouteReturn(r)

SpecRace == InitRace /\ [][NextRace]_vars

\* ---- the search route ----

\* a list in place of the map: every entry is kept
MapSetAppends(m, key, value) == Append(m, << key, value >>)

\* map.set(key, value): a key that is present keeps its place and gets the
\* new value, a new key goes to the end
MapSet(m, key, value) ==
  IF \E k \in 1..Len(m) : m[k][1] = key
  THEN [k \in 1..Len(m) |-> IF m[k][1] = key THEN << key, value >> ELSE m[k]]
  ELSE Append(m, << key, value >>)

\* new Map(entries): the entries are set one after the other
RECURSIVE NewMap(_)
NewMap(entries) ==
  IF entries = << >> THEN << >>
  ELSE LET n == Len(entries)
       IN MapSet(NewMap(SubSeq(entries, 1, n - 1)),
                 entries[n][1], entries[n][2])

\* lines 51-55: Array.from(new Map(retrieved.map(...)).values())
uniqueResults(list) ==
  LET m == NewMap([k \in 1..Len(list) |-> << list[k].metadata.title, list[k] >>])
  IN [k \in 1..Len(m) |-> m[k][2]]

\* the test of the query that lets the empty string through
QueryMissingOnlyAbsent(q) == ~q.present

\* line 9: !query
QueryMissing(q) == ~q.present \/ q.text = ""

\* lines 58-64: the catch of the search route
SearchCatch(rec, step, code) ==
  [rec EXCEPT !.failures = Append(@, [step |-> step, code |-> code]),
              !.status = 500, !.body = "error", !.pc = "done"]

\* lines 7-44: the request arrives; the route runs up to its first request
SearchStep(rec, q, e) ==
  IF QueryMissing(q)
  THEN [rec EXCEPT !.query = q, !.status = 400, !.body = "error",
                   !.pc = "done"]
  ELSE IF ~e.pinecone \/ ~e.index \/ ~e.voyage
  THEN SearchCatch([rec EXCEPT !.query = q], "config", "other")
  ELSE [rec EXCEPT !.query = q, !.embedCalls = @ + 1, !.pc = "embedQuery"]

SearchStart ==
  /\ search.pc = "idle"
  /\ \E q \in Queries : search' = SearchStep(search, q, env)
  /\ UNCHANGED << env, docs, indexExists, indexVecs, starts, run >>

\* line 44: the query has been embedded, the store is asked
EmbedQueryReturn ==
  /\ search.pc = "embedQuery"
  /\ \/ search' = [search EXCEPT !.storeCalls = @ + 1, !.pc = "storeQuery"]
     \/ \E code \in ErrorCodes :
          search' = SearchCatch(search, "embedQuery", code)
  /\ UNCHANGED << env, docs, indexExists, indexVecs, starts, run >>

\* lines 44-57: the store has answered
StoreQueryReturn ==
  /\ search.pc = "storeQuery"
  /\ \/ \E list \in RetrievedLists :
          search' = [search EXCEPT !.retrieved = list,
                                   !.results = uniqueResults(list),
                                   !.status = 200,
                                   !.body = "results",
                                   !.pc = "done"]
     \/ \E code \in ErrorCodes :
          search' = SearchCatch(search, "storeQuery", code)
  /\ UNCHANGED << env, docs, indexExists, indexVecs, starts, run >>

InitSearch ==
  /\ env \in [voyage : BOOLEAN, pinecone : BOOLEAN, index : BOOLEAN]
  /\ docs = << >>
  /\ indexExists = TRUE
  /\ indexVecs = {}
  /\ starts = 0
  /\ run = [r \in RunIds |-> RunIdle]
  /\ search = SearchIdle

NextSearch == SearchStart \/ EmbedQueryReturn \/ StoreQueryReturn

SpecSearch == InitSearch /\ [][NextSearch]_vars

\* ---- batchUpserts on its own ----

TestVectors(n) ==
  [k \in 1..n |-> [id |-> << 1, k >>, values |-> << 1, k >>,
                   chunk |-> [doc |-> 1, part |-> k]]]

\* batchUpserts is entered with any list of vectors and any batchSize >= 1
InitUpsert ==
  /\ env = [voyage |-> TRUE, pinecone |-> TRUE, index |-> TRUE]
  /\ docs = << >>
  /\ indexExists = TRUE
  /\ indexVecs = {}
  /\ starts = 1
  /\ \E n \in 0..MaxVectors, size \in 1..MaxSubBatch :
       run = [r \in RunIds |->
                [RunIdle EXCEPT !.pc = "batchUpserts", !.runNo = 1,
                                !.vectors = TestVectors(n),
                                !.subSize = size]]
  /\ search = SearchIdle

NextUpsert == \E r \in RunIds : BatchUpserts(r) \/ UpsertReturn(r)

SpecUpsert == InitUpsert /\ [][NextUpsert]_vars

\* ---- helpers of the properties ----

RECURSIVE Flatten(_)
Flatten(groups) ==
  IF groups = << >> THEN << >> ELSE Head(groups) \o Flatten(Tail(groups))

\* the vectors of group g of a run
GroupVectors(rec, g) == { rec.upsertLog[g][k] : k \in 1..Len(rec.upsertLog[g]) }

\* the vectors of the groups of a run whose index.upsert call succeeded
Upserted(rec) ==
  UNION { { rec.upsertLog[g][k] : k \in 1..Len(rec.upsertLog[g]) } :
            g \in { h \in 1..Len(rec.upsertOutcome) :
                      rec.upsertOutcome[h].outcome = "ok" } }

ConfigComplete == env.voyage /\ env.pinecone /\ env.index

Returned(rec) == rec.pc \in {"returned", "done"}

\* the steps inside the try block of a batch
BatchSteps == {"embed", "apiKey", "upsert"}

QueryEmpty == ~search.query.present \/ search.query.text = ""

CallFailed ==
  \E k \in 1..Len(search.failures) :
    search.failures[k].step \in {"embedQuery", "storeQuery"}

SameTitle(a, b) == a.metadata.title = b.metadata.title

\* ---- properties (SpecSearch) ----

\* C1: the result list of a successful POST /search never holds two results
\* with the same metadata title.
C1_NoDuplicateTitles ==
  search.status = 200 =>
    \A a, b \in 1..Len(search.results) :
      a # b => ~SameTitle(search.results[a], search.results[b])

\* a successful search whose retrieved list held the same title twice
C1_Witness ==
  /\ search.status = 200
  /\ search.query.text = "breach of contract"
  /\ Len(search.results) = 2
  /\ \E a, b \in 1..Len(search.retrieved) :
       a # b /\ SameTitle(search.retrieved[a], search.retrieved[b])

\* C2: first occurrence wins: the result returned for a title is the
\* earliest item of the retrieved list that carries this title.
C2_FirstOccurrenceWins ==
  search.status = 200 =>
    \A k \in 1..Len(search.results) :
      \E a \in 1..Len(search.retrieved) :
        /\ search.results[k] = search.retrieved[a]
        /\ \A b \in 1..(a - 1) :
             ~SameTitle(search.retrieved[b], search.retrieved[a])

C3_SkipWhenIndexHasVectors ==
  [][\A r \in RunIds :
       run'[r].hasVectors = "yes" =>
         /\ run'[r].embedLog = << >>
         /\ run'[r].upsertLog = << >>
         /\ run'[r].loaded = 0
         /\ run'[r].hbStatus = 200
         /\ Returned(run'[r])
         /\ indexVecs' = indexVecs
         /\ indexExists' = indexExists]_vars

\* an invocation that found vectors and has returned
C3_Witness ==
  \E r \in RunIds :
    /\ run[r].hasVectors = "yes"
    /\ run[r].pc = "done"
    /\ indexVecs # {}

\* C4: POST /ingest for an index without vectors and a docs directory
\* without PDF documents is answered with status 400, and no embedding call
\* is made.
C4_NoDocumentsAnswered400 ==
  \A r \in RunIds :
    (/\ run[r].pc = "done"
     /\ run[r].hasVectors = "no"
     /\ run[r].loaded = 1
     /\ run[r].failures = << >>
     /\ Len(docs) = 0)
    => (run[r].response = 400 /\ run[r].embedLog = << >>)

\* C5 as stated: whenever a step of the run failed with the connect-timeout
\* code the outcome is 504, whenever a step failed with another error the
\* outcome is 500.
C5_AsStated ==
  \A r \in RunIds :
    Returned(run[r]) =>
      \A k \in 1..Len(run[r].failures) :
        run[r].hbStatus =
          (IF run[r].failures[k].code = "timeout" THEN 504 ELSE 500)

\* C5, amended: the classification holds of the steps outside the try block
\* of a batch (index creation, has-vectors check, loading, splitting,
\* construction of the embeddings client).
C5_OuterFailureClassified ==
  \A r \in RunIds :
    Returned(run[r]) =>
      \A k \in 1..Len(run[r].failures) :
        run[r].failures[k].step \notin BatchSteps =>
          run[r].hbStatus =
            (IF run[r].failures[k].code = "timeout" THEN 504 ELSE 500)

\* a run whose loader failed with the connect-timeout code
C5_Witness ==
  \E r \in RunIds :
    /\ run[r].pc = "done"
    /\ run[r].failures = << [step |-> "load", code |-> "timeout"] >>
    /\ run[r].hbStatus = 504

\* C6: when a required configuration value is missing, the ingestion and the
\* search fail before any call to the embeddings provider or to the vector
\* store has been made.
C6_ConfigFailsBeforeAnyCall ==
  ~ConfigComplete =>
    /\ \A r \in RunIds :
         /\ run[r].storeCalls = 0
         /\ run[r].embedLog = << >>
         /\ Returned(run[r]) => run[r].hbStatus \notin {0, 200}
    /\ search.embedCalls = 0 /\ search.storeCalls = 0
    /\ search.pc = "done" => search.status # 200

NumBatches(n) == (n + BATCH_SIZE - 1) \div BATCH_SIZE

BatchFailed(rec) ==
  \E k \in 1..Len(rec.failures) : rec.failures[k].step \in {"embed", "upsert"}

\* C7: a batch whose embedding or upsert fails does not stop the run: the
\* batches are visited once each, in order, none is embedded twice, and the
\* run ends with status 200 after the last batch.
C7_BatchFailureSkipped ==
  \A r \in RunIds :
    /\ \A k \in 1..Len(run[r].batchLog) : run[r].batchLog[k].batch = k
    /\ \A k, l \in 1..Len(run[r].embedLog) :
         k < l => run[r].embedLog[k] < run[r].embedLog[l]
    /\ (Returned(run[r]) /\ BatchFailed(run[r])) =>
         /\ run[r].hbStatus = 200
         /\ Len(run[r].batchLog) = NumBatches(Len(run[r].splits))

\* a run of two batches whose first batch failed and whose last was upserted
C7_Witness ==
  \E r \in RunIds :
    /\ run[r].pc = "done"
    /\ Len(run[r].batchLog) = 2
    /\ run[r].batchLog[1].outcome = "failed"
    /\ run[r].batchLog[2].outcome = "ok"
    /\ run[r].embedLog = << 1, 2 >>

\* a loaded document that must not be ingested
Excluded(doc) ==
  doc.pageContent.trimmed = 0 \/ doc.pageContent.trimmed >= LENGTH_BOUND

\* C8: a loaded document whose trimmed text is empty or not below the bound
\* of 8192 characters is not handed to the splitter, and no vector derived
\* from it is upserted.
C8_InvalidDocumentsExcluded ==
  /\ \A r \in RunIds :
       /\ \A k \in 1..Len(run[r].handed) : ~Excluded(run[r].handed[k])
       /\ \A g \in 1..Len(run[r].upsertLog) :
            \A k \in 1..Len(run[r].upsertLog[g]) :
              ~Excluded(docs[run[r].upsertLog[g][k].chunk.doc])
  /\ \A v \in indexVecs \ {SeedVector} : ~Excluded(docs[v.chunk.doc])

\* vectors were upserted from a directory that also holds a document of
\* 8192 characters
C8_Witness ==
  /\ \E k \in 1..Len(docs) : docs[k].pageContent.trimmed = LENGTH_BOUND
  /\ \E r \in RunIds : run[r].pc = "done" /\ run[r].loaded = 1
  /\ indexVecs \ {SeedVector} # {}

\* C11: the bootstrap trigger hands the orchestrator's outcome on: the
\* caller gets a success signal only if handleBootstrapping's outcome was
\* success, and a failure signal whenever it was 400, 500 or 504; so does
\* the caller of the ingest endpoint.
C11_OutcomeTranslated ==
  \A r \in RunIds :
    /\ run[r].signal = "success" => run[r].hbStatus = 200
    /\ (run[r].signal # "none" /\ run[r].hbStatus \in {400, 500, 504}) =>
         run[r].signal = "failure"
    /\ (run[r].response # 0 /\ run[r].hbStatus \in {400, 500, 504}) =>
         ~(run[r].response >= 200 /\ run[r].response <= 299)

\* C13: within one run the batches are handled one after the other: at
\* most one embedding or upsert request is in flight, the run is suspended
\* at it, and it belongs to the batch the loop is at, so no request of a
\* later batch is sent while one of an earlier batch is still pending.
C13_OneRequestInFlight ==
  \A r \in RunIds :
    /\ Cardinality(run[r].inflight) <= 1
    /\ \A q \in run[r].inflight :
         /\ q.batch = BatchNo(run[r].i)
         /\ run[r].pc = q.kind
    /\ run[r].pc \in {"embed", "upsert"} => run[r].inflight # {}
    /\ \A g \in 1..Len(run[r].upsertOutcome) :
         run[r].upsertOutcome[g].batch <= BatchNo(run[r].i)

\* the second batch's upsert is in flight after the first batch was embedded
\* and upserted in three groups
C13_Witness ==
  \E r \in RunIds :
    /\ run[r].pc = "upsert"
    /\ run[r].inflight = {[kind |-> "upsert", batch |-> 2, group |-> 0]}
    /\ run[r].embedLog = << 1, 2 >>
    /\ Len(run[r].upsertOutcome) = 3
    /\ run[r].batchLog[1].outcome = "ok"

\* C14: no retry and no rollback: when the upsert of a group of a batch
\* fails, the groups of the batch upserted before it stay in the index, the
\* failed group and the rest of the batch are never upserted in this run,
\* and the run goes on with the next batch.
C14_NoRetryNoRollback ==
  \A r \in RunIds :
    /\ \A v \in indexVecs \ {SeedVector} :
         v.id[1] = run[r].runNo => v \in Upserted(run[r])
    /\ \A g \in 1..Len(run[r].upsertOutcome) :
         run[r].upsertOutcome[g].outcome = "failed" =>
           LET b == run[r].upsertOutcome[g].batch IN
           /\ \A h \in 1..(g - 1) :
                run[r].upsertOutcome[h].batch = b =>
                  /\ run[r].upsertOutcome[h].outcome = "ok"
                  /\ GroupVectors(run[r], h) \subseteq indexVecs
           /\ GroupVectors(run[r], g) \cap indexVecs = {}
           /\ \A h \in (g + 1)..Len(run[r].upsertOutcome) :
                run[r].upsertOutcome[h].batch > b
           /\ Len(run[r].upsertLog) > Len(run[r].upsertOutcome) =>
                BatchNo(run[r].i) > b
           /\ Len(run[r].batchLog) >= b
           /\ run[r].batchLog[b].outcome = "failed"
           /\ Returned(run[r]) =>
                /\ run[r].hbStatus = 200
                /\ Len(run[r].batchLog) = NumBatches(Len(run[r].splits))

\* the second of the three groups of batch 1 failed: the first group is in
\* the index, the third was never sent, and batch 2 was upserted after it
C14_Witness ==
  \E r \in RunIds :
    /\ run[r].pc = "done"
    /\ run[r].upsertOutcome = << [batch |-> 1, outcome |-> "ok"],
                                 [batch |-> 1, outcome |-> "failed"],
                                 [batch |-> 2, outcome |-> "ok"] >>
    /\ Len(run[r].vectors) = 1
    /\ Cardinality(indexVecs) = 3

\* C15: every batch for which an embedding request was sent is followed by
\* a pause before the next batch: 1000 ms when the batch was upserted, 2000
\* ms when it failed, a batch without embeddings included.
C15_PauseAfterEveryBatch ==
  \A r \in RunIds :
    \A k \in 1..Len(run[r].batchLog) :
      run[r].batchLog[k].outcome # "skipped" =>
        run[r].batchLog[k].pause =
          (IF run[r].batchLog[k].outcome = "ok" THEN DELAY_OK ELSE DELAY_FAILED)

\* C16: every vector record passed to index.upsert carries the embedding
\* the provider computed for its chunk, whatever the number of embeddings
\* the provider returned; no record carries an undefined embedding.
C16_VectorsCarryEmbeddings ==
  \A r \in RunIds :
    \A g \in 1..Len(run[r].upsertLog) :
      \A v \in GroupVectors(run[r], g) :
        /\ v.values # Undefined
        /\ v.values = << v.chunk.doc, v.chunk.part >>

\* the index held vectors before this request started: the seed, or
\* vectors of an earlier request
LaterRun(rec) ==
  /\ rec.runNo # 0
  /\ \E v \in indexVecs : v.id[1] < rec.runNo

\* C17: over any sequence of ingestion requests on one index, a request
\* that starts when the index holds a vector adds none: all the vectors of
\* the index come from one request (or were there before), so the chunks of
\* a batch that request skipped are never ingested later; and every later
\* request is answered with success.
C17_LaterRunsAddNothing ==
  /\ \A v, w \in indexVecs : v.id[1] = w.id[1]
  /\ \A r \in RunIds :
       LaterRun(run[r]) =>
         /\ run[r].embedLog = << >>
         /\ run[r].upsertLog = << >>
         /\ run[r].loaded = 0
         /\ run[r].pc = "done" =>
              /\ run[r].response = 200
              /\ run[r].failures = << >> => run[r].hbStatus = 200

\* the second request ended with success on an index that holds the vectors
\* of the first batch only: the first request had skipped its second batch
C17_Witness ==
  \E r \in RunIds :
    /\ run[r].runNo = 2
    /\ run[r].pc = "done"
    /\ run[r].hasVectors = "yes"
    /\ run[r].hbStatus = 200
    /\ Cardinality(indexVecs) = BATCH_SIZE
    /\ \A v \in indexVecs : v.id[1] = 1
    /\ Len(splitDocuments(SelectSeq(docs,
              LAMBDA d : isValidContent(d.pageContent)))) > BATCH_SIZE

\* ---- properties (SpecRace) ----

\* C12: two ingestion requests served at the same time do not exclude each
\* other: when both found the index without vectors, what each of them
\* upserted stays in the index under ids of its own, so a chunk both of
\* them upserted is stored twice.
C12_ConcurrentRunsDuplicate ==
  \A a, b \in ConcurrentRuns :
    (a # b /\ run[a].hasVectors = "no" /\ run[b].hasVectors = "no") =>
      \A v \in Upserted(run[a]), w \in Upserted(run[b]) :
        /\ v.id # w.id
        /\ v \in indexVecs /\ w \in indexVecs

\* both requests passed the has-vectors check, both ran to their end, and
\* the index holds the same chunk under two ids
C12_Witness ==
  /\ \A r \in ConcurrentRuns :
       /\ run[r].pc = "done"
       /\ run[r].hasVectors = "no"
       /\ run[r].hbStatus = 200
       /\ Upserted(run[r]) # {}
  /\ \E v, w \in indexVecs : v.chunk = w.chunk /\ v.id # w.id

\* ---- properties (SpecUpsert) ----

\* C9: batchUpserts passes groups of at most batchSize vectors to
\* index.upsert, in input order; when no upsert fails every input vector is
\* in exactly one group.
C9_UpsertsPartitionVectors ==
  \A r \in RunIds :
    LET sent == Flatten(run[r].upsertLog) IN
    /\ \A g \in 1..Len(run[r].upsertLog) :
         /\ Len(run[r].upsertLog[g]) >= 1
         /\ Len(run[r].upsertLog[g]) <= run[r].subSize
    /\ Len(sent) <= Len(run[r].vectors)
    /\ sent = SubSeq(run[r].vectors, 1, Len(sent))
    /\ (run[r].pc = "delay" /\ run[r].failures = << >>) =>
         /\ sent = run[r].vectors
         /\ \A k \in 1..Len(run[r].vectors) : run[r].vectors[k] \in indexVecs

\* five vectors were upserted in three groups of at most two
C9_Witness ==
  \E r \in RunIds :
    /\ run[r].pc = "delay"
    /\ run[r].failures = << >>
    /\ Len(run[r].vectors) = 5
    /\ run[r].subSize = 2
    /\ Len(run[r].upsertLog) = 3

====
